---- MODULE Spec2Model ----
(***************************************************************************)
(* State-machine model of the networking-game browser client.              *)
(*                                                                         *)
(*   static/gamescript.js          (script = "game")                       *)
(*   static/networkinggamescript.js (script = "legacy", src/unnamed/part_000)*)
(*                                                                         *)
(* A page loads one of the two scripts.  JavaScript runs one task at a     *)
(* time, so every event handler runs atomically up to its first await, and *)
(* the code after an awaited fetch(...)/res.json() pair runs atomically    *)
(* when the response is handled.  The server is an opaque collaborator:    *)
(* every reply is chosen nondeterministically from the replies the         *)
(* endpoint can produce (rejected fetch, unparsable body, non-2xx status   *)
(* with a body, 2xx with a body).                                          *)
(*                                                                         *)
(* Non-ASCII text of the source is written in ASCII here:                  *)
(*   "Loading scenario..." for "Loading scenario" + U+2026,                *)
(*   "Thinking..." likewise, " * " for " " + U+2022 + " ".                 *)
(***************************************************************************)
EXTENDS Integers, Sequences, FiniteSets, Bags, TLC

VARIABLES
  script,        \* which script the page runs: "game" | "legacy"
  wired,         \* init() has run wireQuests()/wireTasks()/wireCoach()
  net,           \* bag of requests in flight (fetch issued, not yet handled)
  ev,            \* history: the handler step that produced this state
  alertMsg,      \* argument of the alert() raised by the last step, <<>> if none
  currentQuest,  \* gamescript.js:4
  modal,         \* #quest-modal style.display
  title,         \* #quest-title textContent
  prompt,        \* #quest-prompt textContent
  text,          \* #quest-text value
  scoreR,        \* #score-result textContent
  follow,        \* #followup-choices style.display
  active,        \* the .pill elements carrying class "active" / aria-pressed="true"
  sid,           \* history: number of openQuest calls so far (the session number)
  view,          \* what loadState()/renderState() last put on the page
  board,         \* what loadLeaderboard() last put into #leaderboard-body
  reported,      \* history: task ids some handled response reported completed
  coachModal,    \* #coach-modal style.display
  feed,          \* children of #coach-feed, oldest first
  input,         \* #coach-input value
  status,        \* #coach-status textContent
  nscore,        \* history: number of clicks on the score-quest button so far
  clicked,       \* history: the pill clicked last since the last openQuest, if any
  nsend          \* history: number of coach sends that issued a request

questVars == <<currentQuest, modal, title, prompt, text, scoreR, follow, active,
              sid, nscore, clicked>>
taskVars  == <<view, board, reported>>
coachVars == <<coachModal, feed, input, status, nsend>>
vars == <<script, wired, net, ev, alertMsg, questVars, taskVars, coachVars>>

----------------------------------------------------------------------------
(* Bounds of the model *)

\* requests that may be in flight at the same time while a quest or the coach
\* is exercised
MaxInFlight == 2
\* requests that may be in flight at the same time while the task list is
\* exercised: a second refresh pair can start while a /get_state is still out
MaxTaskInFlight == 3
\* openQuest calls in one behaviour
MaxOpen == 2
\* clicks on the score-quest button in one behaviour
MaxScore == 1
\* coach sends (with non-blank text) in one behaviour
MaxSend == 2
\* the most points the server reports where the progress bar is checked
MaxPoints == 250

----------------------------------------------------------------------------
(* Values *)

\* what res.json() cannot parse
Unparsable == [unparsable |-> TRUE]

\* j has the field f (j.f is not undefined)
Has(j, f) == f \in DOMAIN j

\* fetch() rejected: no response at all
Rejected == [settle |-> "reject", ok |-> FALSE, body |-> Unparsable]

\* fetch() resolved with a response of the given res.ok and body
Response(ok, body) == [settle |-> "resolve", ok |-> ok, body |-> body]

\* `await fetch(...)` and `await res.json()` both complete without throwing
Parsed(r) == r.settle = "resolve" /\ r.body # Unparsable

\* a request in flight; from names the caller, tag is history (session or
\* send number, 0 where there is none)
Request(url, payload, from, tag) ==
  [url |-> url, payload |-> payload, from |-> from, tag |-> tag]

NoPayload == [none |-> TRUE]

InFlight(url) == {r \in BagToSet(net) : r.url = url}

Issue(bag, r) == bag (+) SetToBag({r})

Settle(bag, r) == bag (-) SetToBag({r})

\* the model's bound on concurrency: n more requests fit in bag
Room(bag, n) == BagCardinality(bag) + n <= MaxInFlight

\* the same for the task list, whose refreshes come in pairs
TaskRoom(bag, n) == BagCardinality(bag) + n <= MaxTaskInFlight

NoAlert == <<>>

----------------------------------------------------------------------------
(* Badges: gamescript.js BADGE_LABELS, prettyBadge.  A badge id and a label *)
(* are sequences of characters.                                            *)

FirstConnection ==
  <<"b","a","d","g","e","_","f","i","r","s","t","_","c","o","n","n","e","c","t","i","o","n">>

WeekStreak3 ==
  <<"b","a","d","g","e","_","w","e","e","k","_","s","t","r","e","a","k","_","3">>

ResourceShare ==
  <<"b","a","d","g","e","_","r","e","s","o","u","r","c","e","_","s","h","a","r","e">>

CoffeeChat ==
  <<"b","a","d","g","e","_","c","o","f","f","e","e","_","c","h","a","t">>

OutreachPro ==
  <<"b","a","d","g","e","_","o","u","t","r","e","a","c","h","_","p","r","o">>

\* an id the table does not know
CustomThing ==
  <<"b","a","d","g","e","_","c","u","s","t","o","m","_","t","h","i","n","g">>

\* the table; each label starts with its emoji, written here as one chunk
BADGE_LABELS ==
  [id \in {FirstConnection, WeekStreak3, ResourceShare, CoffeeChat, OutreachPro} |->
     CASE id = FirstConnection ->
            <<"(satellite) ","F","i","r","s","t"," ","C","o","n","t","a","c","t">>
       [] id = WeekStreak3 ->
            <<"(fire) ","3","-","D","a","y"," ","S","t","r","e","a","k">>
       [] id = ResourceShare ->
            <<"(gift) ","R","e","c","i","p","r","o","c","i","t","y"," ","R","o","o","k","i","e">>
       [] id = CoffeeChat ->
            <<"(coffee) ","C","o","f","f","e","e"," ","C","h","a","l","l","e","n","g","e","r">>
       [] OTHER ->
            <<"(dish) ","O","u","t","r","e","a","c","h"," ","P","r","o">>]

Lower == <<"a","b","c","d","e","f","g","h","i","j","k","l","m",
           "n","o","p","q","r","s","t","u","v","w","x","y","z">>

Upper == <<"A","B","C","D","E","F","G","H","I","J","K","L","M",
           "N","O","P","Q","R","S","T","U","V","W","X","Y","Z">>

Digits == {"0","1","2","3","4","5","6","7","8","9"}

Range(s) == {s[i] : i \in DOMAIN s}

\* the regular expression class \w
IsWordChar(c) == c \in Range(Lower) \cup Range(Upper) \cup Digits \cup {"_"}

\* String.prototype.toUpperCase on one character
ToUpperCase(c) ==
  IF c \in Range(Lower)
    THEN Upper[CHOOSE i \in DOMAIN Lower : Lower[i] = c]
    ELSE c

\* id.replace(/_/g, " ")
Spaced(id) == [i \in DOMAIN id |-> IF id[i] = "_" THEN " " ELSE id[i]]

\* s.replace(/\b\w/g, m => m.toUpperCase()): a word character that starts a word
TitleCase(s) ==
  [i \in DOMAIN s |->
     IF IsWordChar(s[i]) /\ (i = 1 \/ ~IsWordChar(s[i - 1]))
       THEN ToUpperCase(s[i])
       ELSE s[i]]

prettyBadge(id) ==
  IF id \in DOMAIN BADGE_LABELS THEN BADGE_LABELS[id] ELSE TitleCase(Spaced(id))

----------------------------------------------------------------------------
(* ProgressState as the server sends it *)

TaskIds == {"t1", "t2", "t3"}

\* the server's tasks, those of done completed; t3 has a category the client
\* does not know
ServerTasks(done) ==
  << [id |-> "t1", description |-> "Message one new contact", points |-> 10,
      category |-> "daily", completed |-> "t1" \in done],
     [id |-> "t2", description |-> "Book a coffee chat", points |-> 50,
      category |-> "weekly", completed |-> "t2" \in done],
     [id |-> "t3", description |-> "Attend a meetup", points |-> 5,
      category |-> "monthly", completed |-> "t3" \in done] >>

ServerBadges(done) ==
  (IF "t1" \in done THEN <<FirstConnection>> ELSE <<>>)
    \o (IF "t2" \in done THEN <<CustomThing>> ELSE <<>>)

ServerPoints(done) ==
  95 + (IF "t1" \in done THEN 10 ELSE 0) + (IF "t2" \in done THEN 50 ELSE 0)

ProgressState(done) ==
  [points |-> ServerPoints(done), streak |-> Cardinality(done),
   level |-> IF done = {} THEN "Rookie Connector" ELSE "Rising Networker",
   badges |-> ServerBadges(done), tasks |-> ServerTasks(done)]

\* a state with only a streak: points, level, badges and tasks are missing
SparseState == [streak |-> 0]

ServerStates == {ProgressState(d) : d \in SUBSET {"t1", "t2"}} \cup {SparseState}

\* the ids a ProgressState reports as completed
CompletedIn(data) ==
  IF Has(data, "tasks")
    THEN {data.tasks[i].id : i \in {k \in DOMAIN data.tasks : data.tasks[k].completed}}
    ELSE {}

----------------------------------------------------------------------------
(* Rendering: gamescript.js loadState (lines 59-78), renderTasks *)

\* JavaScript's % (the sign of the dividend)
JsRem(a, b) == IF a >= 0 THEN a % b ELSE 0 - ((0 - a) % b)

Min(a, b) == IF a <= b THEN a ELSE b

\* a width capped at 100 with no remainder taken
XpWidthCapped(data) == Min(100, IF Has(data, "points") THEN data.points ELSE 0)

\* Math.min(100, (data.points ?? 0) % 100), the number before "%"
XpWidth(data) == Min(100, JsRem(IF Has(data, "points") THEN data.points ELSE 0, 100))

\* one .task row: description, "<points> XP", and either the done mark or a
\* Complete button carrying data-id and a click listener for completeTask(id);
\* of is history: the task the row was built from
TaskRow(t) ==
  [description |-> t.description, xp |-> t.points, done |-> t.completed,
   button |-> IF t.completed THEN <<>> ELSE <<t.id>>, of |-> t.id]

\* a container that keeps its children when it is rendered again
Kept(children) == children

\* box.innerHTML = "": the children the container held are dropped
Emptied(children) == <<>>

\* renderTasks(containerId, tasks): the container is emptied, then one row per
\* task is appended; box is what the container held before
renderTasks(box, tasks) == Emptied(box) \o [i \in DOMAIN tasks |-> TaskRow(tasks[i])]

TasksOf(data) == IF Has(data, "tasks") THEN data.tasks ELSE <<>>

IsDaily(t) == t.category = "daily"

IsWeekly(t) == t.category = "weekly"

\* the page after loadState() has rendered data onto the page v
RenderGame(v, data) ==
  [points |-> IF Has(data, "points") THEN data.points ELSE 0,
   streak |-> IF Has(data, "streak") THEN data.streak ELSE 0,
   level  |-> IF Has(data, "level") THEN data.level ELSE "Rookie Connector",
   xp     |-> XpWidth(data),
   badges |-> LET b == IF Has(data, "badges") THEN data.badges ELSE <<>>
              IN Emptied(v.badges) \o [i \in DOMAIN b |-> prettyBadge(b[i])],
   daily  |-> renderTasks(v.daily, SelectSeq(TasksOf(data), IsDaily)),
   weekly |-> renderTasks(v.weekly, SelectSeq(TasksOf(data), IsWeekly))]

\* the page as served, before any render: no badges, no task rows
InitialView ==
  [points |-> 0, streak |-> 0, level |-> "", xp |-> 0,
   badges |-> <<>>, daily |-> <<>>, weekly |-> <<>>]

Rows(v) == Range(v.daily) \cup Range(v.weekly)

\* the task ids whose row carries a Complete button
Buttons(v) == {r.button[1] : r \in {x \in Rows(v) : ~x.done}}

\* the tasks whose row carries the done mark and no button
ShownDone(v) == {r.of : r \in {x \in Rows(v) : x.done}}

----------------------------------------------------------------------------
(* Rendering: networkinggamescript.js renderState *)

\* the page after renderState(data) on the page v
renderState(v, data) ==
  [points |-> IF Has(data, "points") THEN [num |-> data.points] ELSE [undefined |-> TRUE],
   streak |-> IF Has(data, "streak")
                THEN [num |-> data.streak, unit |-> " Days"]
                ELSE [undefined |-> TRUE, unit |-> " Days"],
   pct    |-> IF Has(data, "points")
                THEN [num |-> JsRem(data.points, 100)]
                ELSE [nan |-> TRUE],
   badges |-> Emptied(v.badges) \o (IF Has(data, "badges") THEN data.badges ELSE <<>>),
   daily  |-> renderTasks(v.daily, SelectSeq(TasksOf(data), IsDaily)),
   weekly |-> renderTasks(v.weekly, SelectSeq(TasksOf(data), IsWeekly))]

\* the page as served
InitialViewLegacy ==
  [points |-> [num |-> 0], streak |-> [num |-> 0, unit |-> " Days"],
   pct |-> [num |-> 0], badges |-> <<>>, daily |-> <<>>, weekly |-> <<>>]

----------------------------------------------------------------------------
(* Leaderboard: gamescript.js loadLeaderboard *)

Me == "Player-001"

\* replies of GET /leaderboard
BoardReplies ==
  { Rejected,
    Response(TRUE, [rows |-> <<>>]),
    Response(TRUE, [rows |-> << [rank |-> 1, username |-> "Player-007", points |-> 300],
                                [rank |-> 2, username |-> "Player-001", points |-> 145] >>]),
    Response(FALSE, [error |-> "leaderboard unavailable"]) }

\* the rows put into #leaderboard-body for a parsed body: the placeholder row
\* when the body is no array or an empty one, else one row per entry
BoardRows(j) ==
  IF ~Has(j, "rows") \/ Len(j.rows) = 0
    THEN << [rank |-> <<>>, username |-> "No data yet", points |-> 0, me |-> FALSE] >>
    ELSE [i \in DOMAIN j.rows |->
            [rank |-> <<j.rows[i].rank>>, username |-> j.rows[i].username,
             points |-> j.rows[i].points, me |-> j.rows[i].username = Me]]

\* the table body as served
InitialBoard == <<>>

----------------------------------------------------------------------------
(* Page load *)

\* gamescript.js:4
InitialQuest == [type |-> "outreach", choice |-> ""]

\* loadState() / loadLeaderboard() issue their fetch
StateRequest(from) == Request("/get_state", NoPayload, from, 0)

BoardRequest(from) == Request("/leaderboard", NoPayload, from, 0)

\* Promise.all([loadState(), loadLeaderboard()]): both fetches are issued in
\* the same task
Refresh(bag, from) == Issue(Issue(bag, StateRequest(from)), BoardRequest(from))

InitCommon ==
  /\ wired = FALSE
  /\ ev = [op |-> "DOMContentLoaded"]
  /\ alertMsg = NoAlert
  /\ currentQuest = InitialQuest
  /\ modal = "none" /\ title = "" /\ prompt = "" /\ text = ""
  /\ scoreR = <<>> /\ follow = "none" /\ active = {} /\ sid = 0 /\ nscore = 0
  /\ clicked = <<>>
  /\ board = InitialBoard /\ reported = {}
  /\ coachModal = "none" /\ feed = <<>> /\ input = <<>> /\ status = "" /\ nsend = 0

\* gamescript.js init(): both loads are in flight, nothing is wired yet
InitGame ==
  /\ script = "game"
  /\ net = Refresh(EmptyBag, "init")
  /\ view = InitialView
  /\ InitCommon

\* networkinggamescript.js: window.onload = loadState
InitLegacy ==
  /\ script = "legacy"
  /\ net = Issue(EmptyBag, StateRequest("onload"))
  /\ view = InitialViewLegacy
  /\ InitCommon

\* init() passes its await once neither of its two loads is in flight, and
\* then runs wireQuests(), wireTasks(), wireCoach()
InitDone(bag) == \A r \in BagToSet(bag) : r.from # "init"

WiredAfter(bag) == wired \/ (script = "game" /\ InitDone(bag))

----------------------------------------------------------------------------
(* State and leaderboard loads *)

\* replies of GET /get_state (and of GET /load)
StateReplies ==
  {Rejected, Response(TRUE, Unparsable), Response(FALSE, [error |-> "no session"])}
    \cup {Response(TRUE, s) : s \in ServerStates}

\* a loadState that renders a reply only when no other /get_state is out
ViewAfterStateGuarded(reply) ==
  IF ~Parsed(reply) THEN view
  ELSE IF \/ Cardinality(InFlight("/get_state")) > 1
          \/ \E r \in InFlight("/get_state") : CopiesIn(r, net) > 1
    THEN view
  ELSE IF script = "game" THEN RenderGame(view, reply.body)
  ELSE renderState(view, reply.body)

\* the page after a /get_state reply is handled; a loadState that throws
\* changes nothing (game: caught and logged; legacy: an unhandled rejection)
ViewAfterState(reply) ==
  IF ~Parsed(reply) THEN view
  ELSE IF script = "game" THEN RenderGame(view, reply.body)
  ELSE renderState(view, reply.body)

ReportedAfter(reply) ==
  IF Parsed(reply) THEN reported \cup CompletedIn(reply.body) ELSE reported

\* the rest of loadState() once its /get_state fetch settles
StateSettled(r, reply) ==
  /\ r \in InFlight("/get_state")
  /\ net' = Settle(net, r)
  /\ view' = ViewAfterState(reply)
  /\ reported' = ReportedAfter(reply)
  /\ wired' = WiredAfter(net')
  /\ ev' = [op |-> "stateSettled", reply |-> reply, from |-> r.from]
  /\ alertMsg' = NoAlert
  /\ UNCHANGED <<script, board, questVars, coachVars>>

\* the rest of loadLeaderboard() once its /leaderboard fetch settles
BoardSettled(r, reply) ==
  /\ r \in InFlight("/leaderboard")
  /\ reply \in BoardReplies
  /\ net' = Settle(net, r)
  /\ board' = IF Parsed(reply) THEN BoardRows(reply.body) ELSE board
  /\ wired' = WiredAfter(net')
  /\ ev' = [op |-> "boardSettled", reply |-> reply, from |-> r.from]
  /\ alertMsg' = NoAlert
  /\ UNCHANGED <<script, view, reported, questVars, coachVars>>

----------------------------------------------------------------------------
(* Task completion: completeTask in both scripts *)

GenericCompleteError == "Could not complete task."

\* replies of POST /complete_task
CompleteReplies ==
  { Rejected,
    Response(FALSE, Unparsable),
    Response(FALSE, [error |-> "Task already completed"]),
    Response(FALSE, [detail |-> "bad request"]) }
    \cup {Response(TRUE, s) : s \in ServerStates}

\* data.error || "Could not complete task."
CompleteError(data) ==
  IF Has(data, "error") /\ data.error # "" THEN data.error ELSE GenericCompleteError
\* a page with the rows of task id turned into done rows
MarkedDone(v, id) ==
  LET mark(rows) ==
        [i \in DOMAIN rows |->
           IF rows[i].of = id
             THEN [rows[i] EXCEPT !.done = TRUE, !.button = <<>>]
             ELSE rows[i]]
  IN [v EXCEPT !.daily = mark(v.daily), !.weekly = mark(v.weekly)]

\* completeTask that drops a click while a request for the task is in flight
completeTaskOnce(taskId) ==
  /\ taskId \in Buttons(view)
  /\ TaskRoom(net, 1)
  /\ \A r \in InFlight("/complete_task") : r.payload.taskId # taskId
  /\ net' = Issue(net, Request("/complete_task", [taskId |-> taskId], "completeTask", 0))
  /\ ev' = [op |-> "completeTask", taskId |-> taskId]
  /\ alertMsg' = NoAlert
  /\ UNCHANGED <<script, wired, questVars, taskVars, coachVars>>

\* completeTask that marks the row done at the click, before any reply
completeTaskOptimistic(taskId) ==
  /\ taskId \in Buttons(view)
  /\ TaskRoom(net, 1)
  /\ net' = Issue(net, Request("/complete_task", [taskId |-> taskId], "completeTask", 0))
  /\ view' = MarkedDone(view, taskId)
  /\ ev' = [op |-> "completeTask", taskId |-> taskId]
  /\ alertMsg' = NoAlert
  /\ UNCHANGED <<script, wired, questVars, board, reported, coachVars>>

\* a click on the Complete button of a rendered row: completeTask(t.id) up to
\* its fetch
completeTask(taskId) ==
  /\ taskId \in Buttons(view)
  /\ TaskRoom(net, 1)
  /\ net' = Issue(net, Request("/complete_task", [taskId |-> taskId], "completeTask", 0))
  /\ ev' = [op |-> "completeTask", taskId |-> taskId]
  /\ alertMsg' = NoAlert
  /\ UNCHANGED <<script, wired, questVars, taskVars, coachVars>>

\* completeTask that reloads the state alone after a success
CompleteSettledStateOnly(r, reply) ==
  /\ net' = IF Parsed(reply) /\ reply.ok
              THEN Issue(Settle(net, r), StateRequest("completeTask"))
              ELSE Settle(net, r)
  /\ alertMsg' = IF Parsed(reply) /\ ~reply.ok THEN <<CompleteError(reply.body)>> ELSE NoAlert
  /\ view' = view

\* gamescript.js completeTask after its fetch: res.json() throwing is caught
\* and logged; a non-ok status alerts; otherwise both loads are started and
\* the reply's body is dropped
CompleteSettledGame(r, reply) ==
  /\ net' = IF Parsed(reply) /\ reply.ok
              THEN Refresh(Settle(net, r), "completeTask")
              ELSE Settle(net, r)
  /\ alertMsg' = IF Parsed(reply) /\ ~reply.ok THEN <<CompleteError(reply.body)>> ELSE NoAlert
  /\ view' = view

\* networkinggamescript.js completeTask after its fetch: nothing catches a
\* throw; an ok reply is rendered, any other alerts
CompleteSettledLegacy(r, reply) ==
  /\ net' = Settle(net, r)
  /\ alertMsg' = IF Parsed(reply) /\ ~reply.ok THEN <<CompleteError(reply.body)>> ELSE NoAlert
  /\ view' = IF Parsed(reply) /\ reply.ok THEN renderState(view, reply.body) ELSE view

CompleteSettled(r, reply) ==
  /\ r \in InFlight("/complete_task")
  /\ reply \in CompleteReplies
  /\ Parsed(reply) /\ reply.ok /\ script = "game" => TaskRoom(net, 1)
  /\ IF script = "game" THEN CompleteSettledGame(r, reply) ELSE CompleteSettledLegacy(r, reply)
  /\ reported' = ReportedAfter(reply)
  /\ ev' = [op |-> "completeSettled", reply |-> reply, taskId |-> r.payload.taskId]
  /\ UNCHANGED <<script, wired, board, questVars, coachVars>>

\* networkinggamescript.js saveProgress up to its fetch
saveProgress ==
  /\ script = "legacy"
  /\ TaskRoom(net, 1)
  /\ net' = Issue(net, Request("/save", NoPayload, "saveProgress", 0))
  /\ ev' = [op |-> "saveProgress"]
  /\ alertMsg' = NoAlert
  /\ UNCHANGED <<script, wired, questVars, taskVars, coachVars>>

\* saveProgress after its fetch: the alert follows any response, whatever its
\* status; a rejected fetch throws past it
SaveSettled(r, reply) ==
  /\ r \in InFlight("/save")
  /\ net' = Settle(net, r)
  /\ alertMsg' = IF reply.settle = "resolve" THEN <<"Progress saved!">> ELSE NoAlert
  /\ ev' = [op |-> "saveSettled", reply |-> reply]
  /\ UNCHANGED <<script, wired, questVars, taskVars, coachVars>>

\* networkinggamescript.js loadProgress up to its fetch
loadProgress ==
  /\ script = "legacy"
  /\ TaskRoom(net, 1)
  /\ net' = Issue(net, Request("/load", NoPayload, "loadProgress", 0))
  /\ ev' = [op |-> "loadProgress"]
  /\ alertMsg' = NoAlert
  /\ UNCHANGED <<script, wired, questVars, taskVars, coachVars>>

\* loadProgress after its fetch: renderState(data) unless something threw
LoadSettled(r, reply) ==
  /\ r \in InFlight("/load")
  /\ net' = Settle(net, r)
  /\ view' = IF Parsed(reply) THEN renderState(view, reply.body) ELSE view
  /\ reported' = ReportedAfter(reply)
  /\ ev' = [op |-> "loadSettled", reply |-> reply]
  /\ alertMsg' = NoAlert
  /\ UNCHANGED <<script, wired, board, questVars, coachVars>>

----------------------------------------------------------------------------
(* Quests: gamescript.js wireQuests *)

\* the quest types of the four start buttons; the model opens these
QuestTypes == {"outreach", "followup"}

\* the follow-up pills of #followup-choices (the model's page has two) and
\* their data-choice
Pills == {"pill1", "pill2"}

\* btn.dataset.choice || ""
Choice(p) ==
  CASE p = "pill1" -> "Monday"
    [] p = "pill2" -> "48h"
    [] OTHER       -> "Early next week"

LoadingPrompt == "Loading scenario..."

FallbackPrompt == "Write your answer below."

CouldNotScore == <<"Could not score. Try again.">>

Titles(type) ==
  CASE type = "outreach"    -> "Outreach Craft"
    [] type = "coffee"      -> "Coffee-Chat Prep"
    [] type = "followup"    -> "Follow-Up Timing"
    [] type = "reciprocity" -> "Reciprocity Builder"
    [] OTHER                -> "Quest"

\* the scenario prompt the server holds for a quest type
Scenario(type) ==
  CASE type = "outreach" -> "Write a first message to a product lead."
    [] type = "followup" -> "They have not replied. When do you follow up?"
    [] OTHER             -> "Practice scenario."

\* what the user may have typed into #quest-text
Drafts == {"", "Hi Sam, loved your talk."}

\* replies of POST /quest/start
StartReplies(type) ==
  { Rejected,
    Response(TRUE, Unparsable),
    Response(TRUE, [scenario |-> [prompt |-> Scenario(type)]]),
    Response(TRUE, [scenario |-> [prompt |-> ""]]),
    Response(TRUE, [ok |-> TRUE]),
    Response(FALSE, [error |-> "unknown quest type"]) }

\* j?.scenario?.prompt || "Write your answer below."
PromptOf(j) ==
  IF Has(j, "scenario") /\ Has(j.scenario, "prompt") /\ j.scenario.prompt # ""
    THEN j.scenario.prompt
    ELSE FallbackPrompt
\* PromptAfterStart with an empty catch: a failed start leaves the placeholder
PromptAfterStartNoFallback(reply) ==
  IF Parsed(reply) THEN PromptOf(reply.body) ELSE prompt

\* #quest-prompt after the /quest/start fetch settles: the try branch, or the
\* catch branch when fetch or res.json() threw
PromptAfterStart(reply) ==
  IF Parsed(reply) THEN PromptOf(reply.body) ELSE FallbackPrompt

\* replies of POST /quest/score
ScoreReplies ==
  { Rejected,
    Response(TRUE, Unparsable),
    Response(TRUE, [earned |-> "10", tips |-> <<>>]),
    Response(TRUE, [earned |-> "5", tips |-> <<"Add a clear ask.", "Be brief.">>]),
    Response(FALSE, [error |-> "text required"]) }

\* `+${j.earned} XP${(j.tips && j.tips.length) ? " * " + j.tips[0] : ""}`;
\* earned is written as the text the template prints for it
ScoreText(j) ==
  <<"+", IF Has(j, "earned") THEN j.earned ELSE "undefined", " XP">>
    \o (IF Has(j, "tips") /\ Len(j.tips) > 0 THEN <<" * ", j.tips[1]>> ELSE <<>>)

\* ensureModal(): the six pieces of the quest modal are in the page
ensureModal == TRUE

\* the pills left with class "active" after the loop of openQuest
ActiveAfterOpen == active \ Pills
\* QuestAfterOpen that assigns currentQuest.type only: the choice survives
QuestAfterOpenKeepsChoice(type) == [currentQuest EXCEPT !.type = type]

\* currentQuest = { type, choice: "" }
QuestAfterOpen(type) == [type |-> type, choice |-> ""]

\* openQuest(type) up to its fetch; ev keeps what the page held before
openQuest(type) ==
  /\ wired /\ ensureModal
  /\ sid < MaxOpen /\ Room(net, 1)
  /\ currentQuest' = QuestAfterOpen(type)
  /\ modal' = "block"
  /\ title' = Titles(type)
  /\ prompt' = LoadingPrompt
  /\ text' = ""
  /\ scoreR' = <<>>
  /\ follow' = IF type = "followup" THEN "flex" ELSE "none"
  /\ active' = ActiveAfterOpen
  /\ sid' = sid + 1 /\ nscore' = nscore /\ clicked' = <<>>
  /\ net' = Issue(net, Request("/quest/start", [type |-> type], "openQuest", sid'))
  /\ ev' = [op |-> "openQuest", type |-> type,
            prior |-> [text |-> text, choice |-> currentQuest.choice,
                       scoreR |-> scoreR]]
  /\ alertMsg' = NoAlert
  /\ UNCHANGED <<script, wired, taskVars, coachVars>>

\* openQuest after its fetch
StartSettled(r, reply) ==
  /\ r \in InFlight("/quest/start")
  /\ reply \in StartReplies(r.payload.type)
  /\ net' = Settle(net, r)
  /\ prompt' = PromptAfterStart(reply)
  /\ ev' = [op |-> "startSettled", reply |-> reply, tag |-> r.tag]
  /\ alertMsg' = NoAlert
  /\ UNCHANGED <<script, wired, currentQuest, modal, title, text, scoreR, follow,
                 active, sid, nscore, clicked, taskVars, coachVars>>

\* the close-quest button
closeQuest ==
  /\ wired
  /\ modal' = "none"
  /\ ev' = [op |-> "closeQuest"]
  /\ alertMsg' = NoAlert
  /\ UNCHANGED <<script, wired, net, currentQuest, title, prompt, text, scoreR,
                 follow, active, sid, nscore, clicked, taskVars, coachVars>>
\* ActiveAfterClick that adds the class to btn and never removes it elsewhere
ActiveAfterClickAdds(btn) == active \cup {btn}

\* the pills left with class "active" (and aria-pressed "true") after the
\* loop of the click handler of btn
ActiveAfterClick(btn) == {b \in Pills : b = btn}

\* a click on a follow-up pill
pillClick(btn) ==
  /\ wired
  /\ currentQuest' = [currentQuest EXCEPT !.choice = Choice(btn)]
  /\ active' = ActiveAfterClick(btn)
  /\ clicked' = <<btn>>
  /\ ev' = [op |-> "pillClick", btn |-> btn, before |-> active]
  /\ alertMsg' = NoAlert
  /\ UNCHANGED <<script, wired, net, modal, title, prompt, text, scoreR, follow,
                 sid, nscore, taskVars, coachVars>>

\* the user edits the draft in #quest-text
typeDraft(d) ==
  /\ d \in Drafts /\ d # text
  /\ text' = d
  /\ ev' = [op |-> "typeDraft"]
  /\ alertMsg' = NoAlert
  /\ UNCHANGED <<script, wired, net, currentQuest, modal, title, prompt, scoreR,
                 follow, active, sid, nscore, clicked, taskVars, coachVars>>

\* the score-quest button, up to its fetch; nothing but ensureModal() guards it
scoreQuest ==
  /\ wired /\ ensureModal
  /\ Room(net, 1) /\ nscore < MaxScore /\ nscore' = nscore + 1
  /\ net' = Issue(net, Request("/quest/score",
                               [type |-> currentQuest.type, text |-> text,
                                choice |-> currentQuest.choice],
                               "scoreQuest", sid))
  /\ ev' = [op |-> "scoreQuest"]
  /\ alertMsg' = NoAlert
  /\ UNCHANGED <<script, wired, currentQuest, modal, title, prompt, text, scoreR,
                 follow, active, sid, clicked, taskVars, coachVars>>

\* the score handler takes its try branch to the end: fetch and res.json()
\* completed (res.ok is not looked at)
ScoreSucceeds(reply) == Parsed(reply)

\* the score handler after its fetch
ScoreSettled(r, reply) ==
  /\ r \in InFlight("/quest/score")
  /\ reply \in ScoreReplies
  /\ ScoreSucceeds(reply) => Room(net, 1)
  /\ scoreR' = IF ScoreSucceeds(reply) THEN ScoreText(reply.body) ELSE CouldNotScore
  /\ net' = IF ScoreSucceeds(reply)
              THEN Refresh(Settle(net, r), "scoreQuest")
              ELSE Settle(net, r)
  /\ ev' = [op |-> "scoreSettled", reply |-> reply, tag |-> r.tag]
  /\ alertMsg' = NoAlert
  /\ UNCHANGED <<script, wired, currentQuest, modal, title, prompt, text, follow,
                 active, sid, nscore, clicked, taskVars, coachVars>>

----------------------------------------------------------------------------
(* Coach chat: gamescript.js wireCoach.  Texts are sequences of characters. *)

\* what the user may have typed into #coach-input
Inputs == { <<>>, <<" ">>, <<"h", "i">>, <<" ", "a", "<", "b", " ">> }

IsSpace(c) == c \in {" ", "\t", "\n"}

\* String.prototype.trim
Trim(s) ==
  LET keep == {i \in DOMAIN s : ~IsSpace(s[i])}
  IN IF keep = {} THEN <<>>
     ELSE LET lo == CHOOSE i \in keep : \A k \in keep : i <= k
              hi == CHOOSE i \in keep : \A k \in keep : i >= k
          IN SubSeq(s, lo, hi)

\* escapeHtml: each of & < > " ' becomes its entity
escapeHtml(s) ==
  [i \in DOMAIN s |->
     CASE s[i] = "&"  -> "&amp;"
       [] s[i] = "<"  -> "&lt;"
       [] s[i] = ">"  -> "&gt;"
       [] s[i] = "\"" -> "&quot;"
       [] s[i] = "'"  -> "&#39;"
       [] OTHER       -> s[i]]

NoReply == <<"S","o","r","r","y",","," ","n","o"," ","r","e","p","l","y",".">>

Snag == <<"I"," ","h","i","t"," ","a"," ","s","n","a","g","."," ",
          "T","r","y"," ","a","g","a","i","n",".">>

Thinking == "Thinking..."

\* replies of POST /coach/chat
CoachReplies ==
  { Rejected,
    Response(TRUE, Unparsable),
    Response(TRUE, [reply |-> <<"A", "s", "k", " ", "&", " ", "g", "o">>]),
    Response(TRUE, [reply |-> <<>>]),
    Response(FALSE, [error |-> "coach offline"]) }

\* the div push(role, text) appends: its label and its escaped text; of is
\* history, the number of the send the message belongs to
Message(role, txt, n) ==
  [role |-> role, label |-> IF role = "user" THEN "You:" ELSE "Coach:",
   html |-> escapeHtml(txt), of |-> n]
\* push that sets the feed's content instead of appending to it
pushReplaces(f, role, txt, n) == <<Message(role, txt, n)>>

\* push(role, text)
push(f, role, txt, n) == Append(f, Message(role, txt, n))

\* the open-coach button
openCoach ==
  /\ wired
  /\ feed' = <<>>
  /\ input' = <<>>
  /\ status' = ""
  /\ coachModal' = "block"
  /\ ev' = [op |-> "openCoach"]
  /\ alertMsg' = NoAlert
  /\ UNCHANGED <<script, wired, net, nsend, questVars, taskVars>>

\* the coach-close button
coachClose ==
  /\ wired
  /\ coachModal' = "none"
  /\ ev' = [op |-> "coachClose"]
  /\ alertMsg' = NoAlert
  /\ UNCHANGED <<script, wired, net, feed, input, status, nsend, questVars, taskVars>>

\* the user edits #coach-input
typeCoach(v) ==
  /\ v \in Inputs /\ v # input
  /\ input' = v
  /\ ev' = [op |-> "typeCoach"]
  /\ alertMsg' = NoAlert
  /\ UNCHANGED <<script, wired, net, coachModal, feed, status, nsend, questVars, taskVars>>

\* the coach-send button with nothing but white space in the input: returns
coachSendBlank ==
  /\ wired
  /\ Trim(input) = <<>>
  /\ ev' = [op |-> "coachSend", blank |-> TRUE]
  /\ alertMsg' = NoAlert
  /\ UNCHANGED <<script, wired, net, coachVars, questVars, taskVars>>

\* the coach-send button, up to its fetch
coachSend ==
  /\ wired
  /\ Trim(input) # <<>>
  /\ nsend < MaxSend /\ Room(net, 1)
  /\ nsend' = nsend + 1
  /\ feed' = push(feed, "user", Trim(input), nsend')
  /\ status' = Thinking
  /\ input' = <<>>
  /\ net' = Issue(net, Request("/coach/chat", [text |-> Trim(input)], "coachSend", nsend'))
  /\ ev' = [op |-> "coachSend", blank |-> FALSE]
  /\ alertMsg' = NoAlert
  /\ UNCHANGED <<script, wired, coachModal, questVars, taskVars>>

\* the text of the assistant message: j.reply || "Sorry, no reply." in the try
\* branch, the snag text in the catch branch
AssistantText(reply) ==
  IF ~Parsed(reply) THEN Snag
  ELSE IF Has(reply.body, "reply") /\ reply.body.reply # <<>> THEN reply.body.reply
  ELSE NoReply

\* the coach-send handler after its fetch
CoachSettled(r, reply) ==
  /\ r \in InFlight("/coach/chat")
  /\ reply \in CoachReplies
  /\ net' = Settle(net, r)
  /\ feed' = push(feed, "assistant", AssistantText(reply), r.tag)
  /\ status' = ""
  /\ ev' = [op |-> "coachSettled", reply |-> reply, tag |-> r.tag]
  /\ alertMsg' = NoAlert
  /\ UNCHANGED <<script, wired, coachModal, input, nsend, questVars, taskVars>>

----------------------------------------------------------------------------
(* Specifications.  The handlers of one feature write only that feature's  *)
(* variables (and net, ev, alertMsg), so each feature is checked with the  *)
(* page load and its own handlers.                                         *)

\* the page's loads settle with replies drawn from states and boards
SettleLoads(states, boards) ==
  \/ \E r \in InFlight("/get_state") : \E reply \in states : StateSettled(r, reply)
  \/ \E r \in InFlight("/leaderboard") : \E reply \in boards : BoardSettled(r, reply)

\* the replies to the loads where the feature checked is not the task list
FewStateReplies == {Rejected, Response(TRUE, ProgressState({"t1"}))}

FewBoardReplies == {Rejected, Response(TRUE, [rows |-> <<>>])}

\* the quest handlers are checked with loads that succeed
OkStateReplies == {Response(TRUE, ProgressState({"t1"}))}

OkBoardReplies == {Response(TRUE, [rows |-> <<>>])}

SaveReplies == {Rejected, Response(TRUE, [saved |-> TRUE]), Response(FALSE, Unparsable)}

NextTasks ==
  \/ SettleLoads(StateReplies, BoardReplies)
  \/ \E taskId \in TaskIds : completeTask(taskId)
  \/ \E r \in InFlight("/complete_task") : \E reply \in CompleteReplies :
       CompleteSettled(r, reply)
  \/ saveProgress
  \/ \E r \in InFlight("/save") : \E reply \in SaveReplies : SaveSettled(r, reply)
  \/ loadProgress
  \/ \E r \in InFlight("/load") : \E reply \in StateReplies : LoadSettled(r, reply)

NextQuest ==
  \/ SettleLoads(OkStateReplies, OkBoardReplies)
  \/ \E type \in QuestTypes : openQuest(type)
  \/ \E r \in InFlight("/quest/start") : \E reply \in StartReplies(r.payload.type) :
       StartSettled(r, reply)
  \/ closeQuest
  \/ \E btn \in Pills : pillClick(btn)
  \/ \E d \in Drafts : typeDraft(d)
  \/ scoreQuest
  \/ \E r \in InFlight("/quest/score") : \E reply \in ScoreReplies : ScoreSettled(r, reply)

NextCoach ==
  \/ SettleLoads(FewStateReplies, FewBoardReplies)
  \/ openCoach
  \/ coachClose
  \/ \E v \in Inputs : typeCoach(v)
  \/ coachSendBlank
  \/ coachSend
  \/ \E r \in InFlight("/coach/chat") : \E reply \in CoachReplies : CoachSettled(r, reply)

\* the server's points run over 0 .. MaxPoints, or are missing
PointsState(p) == [ProgressState({}) EXCEPT !.points = p]

PointsReplies ==
  {Response(TRUE, PointsState(p)) : p \in 0..MaxPoints} \cup {Response(TRUE, SparseState)}

NextPoints ==
  \/ SettleLoads(PointsReplies, OkBoardReplies)
  \/ loadProgress
  \/ \E r \in InFlight("/load") : \E reply \in PointsReplies : LoadSettled(r, reply)

\* the progress bar of either script over the range of points
SpecPoints == (InitGame \/ InitLegacy) /\ [][NextPoints]_vars

\* task list and completion, either script
SpecTasks == (InitGame \/ InitLegacy) /\ [][NextTasks]_vars

\* quests of gamescript.js
SpecQuest == InitGame /\ [][NextQuest]_vars

\* coach chat of gamescript.js
SpecCoach == InitGame /\ [][NextCoach]_vars

----------------------------------------------------------------------------
(* Quest claims *)

\* a /quest/score request of the session now open is in flight
ScoreInFlight == \E r \in InFlight("/quest/score") : r.tag = sid

\* the status of the quest session, read off the page: the code keeps no
\* status field
QuestStatus ==
  IF modal = "none" THEN "Idle"
  ELSE IF ScoreInFlight THEN "Scoring"
  ELSE IF prompt = LoadingPrompt THEN "Loading"
  ELSE "Active"

\* the moves of the status the specification allows: the order
\* Idle, Loading, Active, Scoring, back to Active; closeQuest from any state
\* to Idle; openQuest from any state to Loading
StatusMoves ==
  { <<"Idle", "Loading">>, <<"Loading", "Active">>, <<"Active", "Scoring">>,
    <<"Scoring", "Active">> }
    \cup {<<s, "Idle">> : s \in {"Loading", "Active", "Scoring"}}
    \cup {<<s, "Loading">> : s \in {"Loading", "Active", "Scoring"}}

\* C1: the status only moves along Idle, Loading, Active, Scoring, Active or
\* closed, and a click on score-quest while the status is Idle or Loading
\* issues no /quest/score request and changes nothing of the quest.
C1_StatusOrder ==
  [][ /\ QuestStatus' # QuestStatus => <<QuestStatus, QuestStatus'>> \in StatusMoves
      /\ ev'.op = "scoreQuest" /\ QuestStatus \in {"Idle", "Loading"}
           => /\ InFlight("/quest/score")' = InFlight("/quest/score")
              /\ BagCardinality(net') = BagCardinality(net)
              /\ UNCHANGED <<currentQuest, modal, title, prompt, text, scoreR, follow, active>>
    ]_vars

\* the prompt a /quest/start reply carries, if it carries one
SuppliedPrompt(reply) ==
  IF reply.settle = "resolve" /\ reply.body # Unparsable
       /\ "scenario" \in DOMAIN reply.body
       /\ "prompt" \in DOMAIN reply.body.scenario
       /\ reply.body.scenario.prompt # ""
    THEN <<reply.body.scenario.prompt>>
    ELSE <<>>

\* C2: once a /quest/start request has settled, however it settled, the
\* prompt is the server's prompt if the reply supplied one and the fixed
\* fallback otherwise; it is not empty and not the placeholder, and an open
\* session is past Loading.
C2_DegradedStart ==
  ev.op = "startSettled" =>
    /\ prompt = IF SuppliedPrompt(ev.reply) # <<>>
                  THEN SuppliedPrompt(ev.reply)[1]
                  ELSE "Write your answer below."
    /\ prompt \notin {"", LoadingPrompt}
    /\ modal = "block" => QuestStatus \in {"Active", "Scoring"}

\* a start request was rejected by the transport while the quest was open, and
\* the fallback prompt is shown
C2_Witness ==
  /\ ev.op = "startSettled" /\ ev.reply.settle = "reject"
  /\ modal = "block" /\ prompt = FallbackPrompt /\ QuestStatus = "Active"

\* C3: at most one pill is marked selected, it is the pill clicked last since
\* the last openQuest, and currentQuest.choice is that pill's choice, or
\* empty when no pill was clicked since then.
C3_ExclusiveChoice ==
  /\ Cardinality(active) <= 1
  /\ active = {clicked[i] : i \in DOMAIN clicked}
  /\ currentQuest.choice = IF clicked = <<>> THEN "" ELSE Choice(clicked[1])

\* pill2 was clicked while pill1 was selected, and pill2 alone is selected
C3_Witness ==
  /\ ev.op = "pillClick" /\ ev.before = {"pill1"} /\ ev.btn = "pill2"
  /\ active = {"pill2"} /\ currentQuest.choice = Choice("pill2")

\* C4: right after openQuest(type) the session has the new type, no choice,
\* an empty draft, an empty score result and no selected pill; the modal is
\* shown with the placeholder prompt.
C4_OpenDiscards ==
  ev.op = "openQuest" =>
    /\ currentQuest = [type |-> ev.type, choice |-> ""]
    /\ text = "" /\ scoreR = <<>> /\ active = {}
    /\ modal = "block" /\ prompt = LoadingPrompt /\ title = Titles(ev.type)

\* the second openQuest found a draft, a choice and a score result, with the
\* first session's /quest/start request still in flight
C4_Witness ==
  /\ ev.op = "openQuest" /\ sid = 2
  /\ ev.prior.text # "" /\ ev.prior.choice # "" /\ ev.prior.scoreR # <<>>
  /\ \E r \in InFlight("/quest/start") : r.tag = 1
  /\ text = "" /\ currentQuest.choice = ""

\* a /quest/score request failed: rejected, unparsable, or a non-success status
ScoreFailed(reply) ==
  reply.settle = "reject" \/ reply.body = Unparsable \/ ~reply.ok

\* loads started by the score handler are in flight
ScoreRefreshes == {r \in BagToSet(net) : r.from = "scoreQuest" /\ r.url # "/quest/score"}

\* C8: after a failed /quest/score request the score result is the "could not
\* score" message and no load was started; after a successful one it is the
\* earned-points summary and both loads were started.
C8_ScoreFailure ==
  ev.op = "scoreSettled" =>
    IF ScoreFailed(ev.reply)
      THEN scoreR = CouldNotScore /\ ScoreRefreshes = {}
      ELSE scoreR # CouldNotScore /\ scoreR[1] = "+" /\ Cardinality(ScoreRefreshes) = 2

----------------------------------------------------------------------------
(* Task claims *)

\* a /complete_task request failed: rejected, or a non-success status
CompleteFailed(reply) == reply.settle = "reject" \/ ~reply.ok

\* the message the server supplied with a failure, if it supplied one
SuppliedError(reply) ==
  IF reply.settle = "resolve" /\ reply.body # Unparsable /\ "error" \in DOMAIN reply.body
    THEN <<reply.body.error>>
    ELSE <<>>

\* the requests that fetch a ProgressState
StateFetches(bag) == {r \in BagToSet(bag) : r.url \in {"/get_state", "/load"}}

\* C5: when a /complete_task request fails, the page is left as it was, no
\* state fetch is started, and a message is shown to the user: the server's
\* message if it supplied one, else the generic one.
C5_FailureSurfaced ==
  [][ ev'.op = "completeSettled" /\ CompleteFailed(ev'.reply)
        => /\ view' = view
           /\ StateFetches(net') = StateFetches(net)
           /\ alertMsg' = IF SuppliedError(ev'.reply) # <<>>
                            THEN SuppliedError(ev'.reply)
                            ELSE <<"Could not complete task.">>
    ]_vars

\* what the page shows when data is rendered by the script the page runs,
\* starting from the page as served
Rendered(data) ==
  IF script = "game" THEN RenderGame(InitialView, data)
  ELSE renderState(InitialViewLegacy, data)

\* C6: once a success reply to /complete_task is handled, the page shows the
\* ProgressState that reply carried.
C6_ReplyIsState ==
  ev.op = "completeSettled" /\ Parsed(ev.reply) /\ ev.reply.ok
    => view = Rendered(ev.reply.body)

\* C7: a task is shown as done only if a handled reply reported it completed,
\* and the click on Complete leaves the page as it was.
C7_NoOptimisticCompletion ==
  /\ [](ShownDone(view) \subseteq reported)
  /\ [][ev'.op = "completeTask" => view' = view]_vars

\* Complete was clicked for t2, whose row still carries its button, while t1
\* is shown as done
C7_Witness ==
  /\ ev.op = "completeTask" /\ ev.taskId = "t2"
  /\ "t2" \in Buttons(view) /\ "t2" \notin ShownDone(view)
  /\ "t1" \in ShownDone(view)
  /\ \E r \in InFlight("/complete_task") : r.payload.taskId = "t2"

----------------------------------------------------------------------------
(* Coach claims *)

Assistants == {i \in DOMAIN feed : feed[i].role = "assistant"}

Users == {i \in DOMAIN feed : feed[i].role = "user"}

\* C9: a send's user message is in the transcript when its request is issued;
\* every assistant message comes after the user message that triggered it,
\* and assistant messages come in the order of their user messages.
C9_CoachOrdering ==
  /\ ev.op = "coachSend" /\ ~ev.blank
       => /\ feed # <<>> /\ feed[Len(feed)].role = "user" /\ feed[Len(feed)].of = nsend
          /\ \E r \in InFlight("/coach/chat") : r.tag = nsend
  /\ \A i \in Assistants : \E j \in Users : j < i /\ feed[j].of = feed[i].of
  /\ \A i, k \in Assistants : i < k => feed[i].of < feed[k].of

IsPrefix(f, g) == Len(f) <= Len(g) /\ \A i \in DOMAIN f : g[i] = f[i]

\* the text a /coach/chat reply carries, if it carries one
SuppliedReply(reply) ==
  IF reply.settle = "resolve" /\ reply.body # Unparsable
       /\ "reply" \in DOMAIN reply.body /\ reply.body.reply # <<>>
    THEN <<reply.body.reply>>
    ELSE <<>>

\* C10: a send with non-blank text appends one user message and issues one
\* request; its settling appends one assistant message, the reply or a fixed
\* apology; a blank send appends nothing and issues nothing; between two
\* openings of the coach the transcript only grows at its end.
C10_AppendOnly ==
  [][ /\ ev'.op = "coachSend" /\ ~ev'.blank
           => /\ Len(feed') = Len(feed) + 1
              /\ feed'[Len(feed')].role = "user"
              /\ feed'[Len(feed')].label = "You:"
              /\ feed'[Len(feed')].html = escapeHtml(Trim(input))
              /\ BagCardinality(net') = BagCardinality(net) + 1
              /\ Cardinality(InFlight("/coach/chat")') = Cardinality(InFlight("/coach/chat")) + 1
      /\ ev'.op = "coachSend" /\ ev'.blank
           => feed' = feed /\ net' = net
      /\ ev'.op = "coachSettled"
           => /\ Len(feed') = Len(feed) + 1
              /\ feed'[Len(feed')].role = "assistant"
              /\ feed'[Len(feed')].label = "Coach:"
              /\ IF SuppliedReply(ev'.reply) # <<>>
                   THEN feed'[Len(feed')].html = escapeHtml(SuppliedReply(ev'.reply)[1])
                   ELSE feed'[Len(feed')].html \in {escapeHtml(NoReply), escapeHtml(Snag)}
      /\ ev'.op # "openCoach" => IsPrefix(feed, feed')
    ]_vars

\* a request failed and its apology follows the user message in the feed
C10_Witness ==
  /\ ev.op = "coachSettled" /\ ev.reply.settle = "reject"
  /\ Len(feed) = 2
  /\ feed[1].role = "user" /\ feed[2].role = "assistant"
  /\ feed[2].html = escapeHtml(Snag)

----------------------------------------------------------------------------
(* Refresh claims *)

\* how many fetches of a ProgressState are in flight
FetchCount(bag) ==
  LET fs == StateFetches(bag) IN BagCardinality([r \in fs |-> bag[r]])

StateHandled(e) == e.op \in {"stateSettled", "loadSettled"}

\* C11: state refreshes are not ordered or guarded. Every reply to a state
\* fetch that parses replaces what the page shows with that reply's state,
\* whether or not another state fetch is still in flight and whatever was
\* rendered before, and handling it leaves the other fetches in flight; so
\* after overlapping refreshes the page shows the reply handled last.
C11_LastHandledWins ==
  [][StateHandled(ev') =>
       /\ Parsed(ev'.reply) => view' = Rendered(ev'.reply.body)
       /\ ~Parsed(ev'.reply) => view' = view
       /\ FetchCount(net') = FetchCount(net) - 1
    ]_vars

\* gamescript.js has handled one of two overlapping /get_state replies: the
\* page shows it, a task an earlier reply reported completed has its button
\* again, and the other refresh is still to come
C11_Witness ==
  /\ script = "game" /\ ev.op = "stateSettled" /\ ev.from = "completeTask"
  /\ Parsed(ev.reply) /\ view = Rendered(ev.reply.body)
  /\ InFlight("/get_state") # {}
  /\ reported \cap Buttons(view) # {}

----------------------------------------------------------------------------
(* Failure claims *)

\* await fetch(...) rejected or res.json() threw while the reply was handled
Throws(reply) == ~Parsed(reply)

\* the handlers whose awaits sit inside a try with a catch: all six of
\* gamescript.js, none of networkinggamescript.js
TryCatch ==
  [game   |-> {"stateSettled", "boardSettled", "completeSettled",
               "startSettled", "scoreSettled", "coachSettled"},
   legacy |-> {}]

\* the handler that took step e let an exception out: its promise rejects
Escaped(e) == Has(e, "reply") /\ Throws(e.reply) /\ e.op \notin TryCatch[script]

NetworkOps ==
  {"stateSettled", "boardSettled", "completeSettled", "startSettled",
   "scoreSettled", "coachSettled"}

\* C12: a rejected fetch or an unparsable body in a state fetch, leaderboard
\* fetch, task completion, quest start, quest score or coach chat never
\* leaves the handler that met it, and once the two initial loads have
\* settled, failed or not, the handlers are wired.
C12_FailuresContained ==
  /\ ev.op \in NetworkOps => ~Escaped(ev)
  /\ script = "game" /\ InitDone(net) => wired

\* gamescript.js: both initial loads failed and the page is wired all the same
C12_WiredAfterFailures ==
  /\ script = "game" /\ wired
  /\ view = InitialView /\ board = InitialBoard
  /\ ev.op \in {"stateSettled", "boardSettled"} /\ Throws(ev.reply)

----------------------------------------------------------------------------
(* Session claims *)

\* closeQuest emptied the session: no draft, no selected choice
Discarded == text = "" /\ currentQuest.choice = ""

\* a session was opened and then closed
Closed == sid > 0 /\ modal = "none"

\* C13: closeQuest can be taken whenever the modal is open and leaves the
\* controller Idle with no draft text and no selected choice; once a session
\* is closed, a late /quest/start or /quest/score reply writes nothing to the
\* quest panel and a score action sends nothing of the closed session.
C13_CloseDiscards ==
  [][/\ modal # "none" /\ wired => ENABLED closeQuest
     /\ ev'.op = "closeQuest" => modal' = "none" /\ Discarded'
     /\ Closed /\ ev'.op \in {"startSettled", "scoreSettled"}
          => UNCHANGED <<prompt, scoreR>>
     /\ Closed /\ ev'.op = "scoreQuest" => net' = net
    ]_vars

----------------------------------------------------------------------------
(* Leaderboard claims *)

\* how many /leaderboard fetches are in flight
BoardFetches(bag) ==
  LET bs == {r \in BagToSet(bag) : r.url = "/leaderboard"}
  IN BagCardinality([r \in bs |-> bag[r]])

----------------------------------------------------------------------------
(* Progress bar claims *)

\* the number the progress bar shows; none when it is not a number
ShownPct(v) ==
  IF script = "game" THEN <<v.xp>>
  ELSE IF Has(v.pct, "num") THEN <<v.pct.num>> ELSE <<>>

\* the points of a state, 0 when it has none
PointsOr0(data) == IF Has(data, "points") THEN data.points ELSE 0

----------------------------------------------------------------------------
(* Render claims *)

\* step e rendered the body of its reply
RenderedBy(e) ==
  \/ StateHandled(e) /\ Parsed(e.reply)
  \/ script = "legacy" /\ e.op = "completeSettled" /\ Parsed(e.reply) /\ e.reply.ok

\* how many tasks of data have category c
TasksIn(data, c) ==
  Cardinality({i \in DOMAIN TasksOf(data) : TasksOf(data)[i].category = c})

BadgesIn(data) == IF Has(data, "badges") THEN Len(data.badges) ELSE 0

\* C16: whatever was rendered before, once a state is rendered the badges and
\* the daily and weekly rows on the page are those of rendering that state
\* once on the page as served, and there are as many chips and rows as the
\* state has badges and daily and weekly tasks.
C16_FullReplace ==
  RenderedBy(ev) =>
    LET data == ev.reply.body
        once == Rendered(data)
    IN /\ view.badges = once.badges
       /\ view.daily = once.daily /\ view.weekly = once.weekly
       /\ Len(view.badges) = BadgesIn(data)
       /\ Len(view.daily) = TasksIn(data, "daily")
       /\ Len(view.weekly) = TasksIn(data, "weekly")

\* gamescript.js has rendered a state with badges and rows over the rows the
\* completed task was clicked in
C16_Witness ==
  /\ script = "game" /\ ev.op = "stateSettled" /\ ev.from = "completeTask"
  /\ Parsed(ev.reply) /\ BadgesIn(ev.reply.body) > 0
  /\ Len(view.badges) = BadgesIn(ev.reply.body)
  /\ Len(view.daily) = 1 /\ Len(view.weekly) = 1

----------------------------------------------------------------------------
(* Completion claims *)

\* how many /complete_task requests for the task are in flight
Completing(bag, taskId) ==
  CopiesIn(Request("/complete_task", [taskId |-> taskId], "completeTask", 0), bag)

\* C17: task completions are not serialized. A Complete button on the page
\* can be clicked whatever is in flight, a request for the same task
\* included, and every click puts one more /complete_task request in flight
\* beside those already there.
C17_NotSerialized ==
  [][/\ \A id \in Buttons(view) : TaskRoom(net, 1) => ENABLED completeTask(id)
     /\ ev'.op = "completeTask" =>
          /\ Completing(net', ev'.taskId) = Completing(net, ev'.taskId) + 1
          /\ \A id \in TaskIds \ {ev'.taskId} :
               Completing(net', id) = Completing(net, id)
    ]_vars

\* two requests for the same task are in flight
C17_Witness == ev.op = "completeTask" /\ Completing(net, "t1") = 2

\* two requests for different tasks are in flight
C17_WitnessTwoTasks ==
  ev.op = "completeTask" /\ Completing(net, "t1") = 1 /\ Completing(net, "t2") = 1

----------------------------------------------------------------------------
(* Stale reply claims *)

\* C18: once every /quest/start reply has been handled, the prompt on the
\* page is the scenario of the type now open or the fallback, never the
\* scenario of a type opened before it.
C18_PromptOfCurrentSession ==
  sid > 0 /\ InFlight("/quest/start") = {}
    => prompt \in {Scenario(currentQuest.type), FallbackPrompt}

\* C19: a /quest/score reply or failure whose request was sent in a session
\* opened before the one now open leaves the score result as it was.
C19_ScoreOfCurrentSession ==
  [][ev'.op = "scoreSettled" /\ ev'.tag \in 1..(sid - 1) => scoreR' = scoreR]_vars

----------------------------------------------------------------------------
(* Coach status claims *)

\* the /coach/chat requests sent since the coach was last opened: those whose
\* user message is still in the feed
CurrentSends ==
  {r \in InFlight("/coach/chat") :
     \E i \in DOMAIN feed : feed[i].role = "user" /\ feed[i].of = r.tag}

\* C20: the coach status shows the pending text while a /coach/chat request
\* sent since the coach was last opened is in flight, and is empty when no
\* /coach/chat request is in flight.
C20_PendingWhileOutstanding ==
  /\ CurrentSends # {} => status = Thinking
  /\ InFlight("/coach/chat") = {} => status = ""

====
